---- MODULE Spec2Model ----
(***************************************************************************)
(* A model of tools/oesign/getopt_long.c: the NetBSD getopt/getopt_long    *)
(* scanner with in-place permutation of the argument vector.               *)
(*                                                                         *)
(* Characters are their ASCII codes, a C string is the sequence of its     *)
(* characters (the terminating NUL is implicit), a char* into a string is  *)
(* the suffix it points at, and the elements of nargv are pointers: the    *)
(* index the string had in the vector the caller passed (argstr maps a     *)
(* pointer to its string).                                                 *)
(***************************************************************************)
EXTENDS Integers, Sequences, FiniteSets, TLC

\* ------------------------------------------------------------------ characters
NUL   == 0
PLUS  == 43
DASH  == 45
COLON == 58
SEMI  == 59
EQUAL == 61
QMARK == 63
CH_W  == 87

\* the letters the argument vectors, specs and option names are written in
Ch == [a |-> 97, b |-> 98, c |-> 99, e |-> 101, n |-> 110, p |-> 112,
       r |-> 114, v |-> 118, x |-> 120, z |-> 122]

\* has_arg values of struct option (getopt.h)
no_argument       == 0
required_argument == 1
optional_argument == 2

\* the null pointer, as a char* (optarg) and as an element of nargv
NULL    == <<-1>>
NULLPTR == -1

\* #define EMSG ""
EMSG == <<>>

\* #define INORDER (int)1
INORDER == 1

\* #define BADCH (int)'?'
BADCH == QMARK

\* *(s + i) for a C string s
At(s, i) == IF i >= 0 /\ i < Len(s) THEN s[i + 1] ELSE NUL

\* s + i for a C string s (i <= strlen(s))
Plus(s, i) == SubSeq(s, i + 1, Len(s))

\* strlen
strlen(s) == Len(s)

\* strchr(s + from, c): the offset in s of the first c at or after from, -1 for NULL
strchr(s, from, c) ==
    LET hits == {i \in from..(Len(s) - 1) : s[i + 1] = c}
    IN  IF hits = {} THEN -1 ELSE CHOOSE i \in hits : \A k \in hits : i <= k

\* strncmp(s1, s2, n) = 0: the first n characters agree, stopping at a common NUL
RECURSIVE strncmp_eq(_, _, _)
strncmp_eq(s1, s2, n) ==
    IF n = 0 THEN TRUE
    ELSE IF At(s1, 0) # At(s2, 0) THEN FALSE
    ELSE IF At(s1, 0) = NUL THEN TRUE
    ELSE strncmp_eq(Plus(s1, 1), Plus(s2, 1), n - 1)

\* ------------------------------------------------------------------ gcd, permute_args
RECURSIVE gcd_loop(_, _, _)
gcd_loop(a, b, c) == IF c # 0 THEN gcd_loop(b, c, b % c) ELSE b

\* gcd whose loop stops at the first remainder
gcd_first_remainder(a, b) == IF a % b = 0 THEN b ELSE a % b

\* gcd(a, b), b > 0 (a % 0 is undefined: see permute_defined)
gcd(a, b) == gcd_loop(a, b, a % b)

\* cycle_walk whose swap does not store the saved pointer back (line 179 missing)
RECURSIVE cycle_walk_overwrites(_, _, _, _, _, _, _)
cycle_walk_overwrites(v, pos, j, cyclelen, cstart, panonopt_end, lens) ==
    IF j >= cyclelen THEN v
    ELSE LET p == IF pos >= panonopt_end THEN pos - lens[1] ELSE pos + lens[2]
         IN  cycle_walk_overwrites([v EXCEPT ![p] = v[cstart]],
                                   p, j + 1, cyclelen, cstart, panonopt_end, lens)

\* the inner loop of permute_args: cyclelen swaps along one cycle
RECURSIVE cycle_walk(_, _, _, _, _, _, _)
cycle_walk(v, pos, j, cyclelen, cstart, panonopt_end, lens) ==
    IF j >= cyclelen THEN v
    ELSE LET p == IF pos >= panonopt_end THEN pos - lens[1] ELSE pos + lens[2]
         IN  cycle_walk([v EXCEPT ![p] = v[cstart], ![cstart] = v[p]],
                        p, j + 1, cyclelen, cstart, panonopt_end, lens)

\* the outer loop of permute_args: one walk per cycle
RECURSIVE cycle_loop(_, _, _, _, _, _)
cycle_loop(v, i, ncycle, cyclelen, panonopt_end, lens) ==
    IF i >= ncycle THEN v
    ELSE cycle_loop(cycle_walk(v, panonopt_end + i, 0, cyclelen,
                               panonopt_end + i, panonopt_end, lens),
                    i + 1, ncycle, cyclelen, panonopt_end, lens)

\* permute_args with the two block lengths taken for each other
permute_args_swapped(panonopt_start, panonopt_end, opt_end, v) ==
    LET nnonopts == opt_end - panonopt_end
        nopts    == panonopt_end - panonopt_start
        ncycle   == gcd(nnonopts, nopts)
        cyclelen == (opt_end - panonopt_start) \div ncycle
    IN  cycle_loop(v, 0, ncycle, cyclelen, panonopt_end, <<nnonopts, nopts>>)

permute_args(panonopt_start, panonopt_end, opt_end, v) ==
    LET nnonopts == panonopt_end - panonopt_start
        nopts    == opt_end - panonopt_end
        ncycle   == gcd(nnonopts, nopts)
        cyclelen == (opt_end - panonopt_start) \div ncycle
    IN  cycle_loop(v, 0, ncycle, cyclelen, panonopt_end, <<nnonopts, nopts>>)

\* ------------------------------------------------------------------ state
VARIABLES
    nargc,          \* argument count passed on every call
    argstr,         \* argstr[p]: the string the pointer p points at
    options,        \* the short-option spec string
    long_options,   \* the long-option table (the entries before the NULL name)
    has_idx,        \* whether the caller passes idx != NULL
    posix,          \* whether getenv("POSIXLY_CORRECT") != NULL
    caller,         \* the entry point the caller's loop calls
    nargv,          \* the argument vector: nargv[0..nargc-1] pointers, nargv[nargc] = NULL
    opterr, optind, optopt, optreset, optarg,
    place, nonopt_start, nonopt_end,
    place_in,       \* the pointer of the string place points into (NULL: EMSG)
    flagmem,        \* the ints the flag pointers of the table point at
    idx,            \* the int idx points at
    last,           \* what the last call did: return value, return site, locals,
                    \* the optind and place it started from, whether it was the
                    \* first to return -1
    cons,           \* pointers of the tokens scanned as options, arguments or terminator
    trapped         \* an operation with undefined behaviour was executed

vars == <<nargc, argstr, options, long_options, has_idx, posix, caller, nargv,
          opterr, optind, optopt, optreset, optarg, place, place_in,
          nonopt_start, nonopt_end, flagmem, idx, last, cons, trapped>>

\* ------------------------------------------------------------------ macros
\* #define IGNORE_FIRST (*options == '-' || *options == '+')
IGNORE_FIRST == At(options, 0) = DASH \/ At(options, 0) = PLUS

\* #define PRINT_ERROR
PRINT_ERROR ==
    opterr # 0 /\ (At(options, 0) # COLON \/ (IGNORE_FIRST /\ At(options, 1) # COLON))

\* #define IS_POSIXLY_CORRECT
IS_POSIXLY_CORRECT == posix

\* #define PERMUTE
PERMUTE == ~IS_POSIXLY_CORRECT /\ ~IGNORE_FIRST

\* IN_ORDER without the test of POSIXLY_CORRECT
IN_ORDER_ignores_posix == At(options, 0) = DASH

\* #define IN_ORDER
IN_ORDER == ~IS_POSIXLY_CORRECT /\ At(options, 0) = DASH

\* #define BADARG
BADARG ==
    IF (IGNORE_FIRST /\ At(options, 1) = COLON) \/ At(options, 0) = COLON
    THEN COLON ELSE QMARK

\* warn without the test of PRINT_ERROR: the message is always written
warn_unconditional(s, fmt) == [s EXCEPT !.diag = fmt]

\* warnx(fmt, ...) under if (PRINT_ERROR): the message written, if any
warn(s, fmt) == IF PRINT_ERROR THEN [s EXCEPT !.diag = fmt] ELSE s

\* the string at nargv[i], NULL for the terminating null pointer
ArgAt(v, i) == IF v[i] = NULLPTR THEN NULL ELSE argstr[v[i]]

\* whether permute_args stays within defined behaviour: the divisor of gcd is
\* not zero and every slot it swaps is a slot of the vector
permute_defined(panonopt_start, panonopt_end, opt_end) ==
    /\ opt_end - panonopt_end > 0
    /\ panonopt_end - panonopt_start >= 0
    /\ panonopt_start >= 0
    /\ opt_end <= nargc + 1

\* a call permute_args(start, end, opt_end, nargv) made by the scanner
call_permute(s, panonopt_start, panonopt_end, opt_end) ==
    IF permute_defined(panonopt_start, panonopt_end, opt_end)
    THEN [s EXCEPT !.nargv = permute_args(panonopt_start, panonopt_end, opt_end, s.nargv),
                   !.pcalls = Append(@, <<panonopt_start, panonopt_end, opt_end>>)]
    ELSE [s EXCEPT !.trapped = TRUE,
                   !.pcalls = Append(@, <<panonopt_start, panonopt_end, opt_end>>)]

\* ------------------------------------------------------------------ getopt_internal
\* short_unknown without line 280: optopt keeps the value it had
short_unknown_keeps_optopt(g, pl, optchar) ==
    [warn(g, "illoptchar") EXCEPT
        !.optind = IF At(pl, 0) = NUL THEN @ + 1 ELSE @,
        !.ret = BADCH, !.site = "badch"]

\* lines 275-283: option letter unknown or ':'
short_unknown(g, pl, optchar) ==
    [warn(g, "illoptchar") EXCEPT
        !.optind = IF At(pl, 0) = NUL THEN @ + 1 ELSE @,
        !.optopt = optchar, !.ret = BADCH, !.site = "badch"]

\* short_W that takes the next token as text without advancing optind to it
short_W_keeps_optind(g, pl, optchar) ==
    IF At(pl, 0) # NUL
    THEN [g EXCEPT !.ret = -2, !.site = "W"]
    ELSE IF g.optind + 1 >= nargc
    THEN [warn(g, "recargchar") EXCEPT
             !.optind = @ + 1, !.place = EMSG, !.place_in = NULLPTR,
             !.optopt = optchar, !.ret = BADARG, !.site = "Wnoarg"]
    ELSE [g EXCEPT !.place = ArgAt(g.nargv, g.optind + 1),
                   !.place_in = g.nargv[g.optind + 1],
                   !.cons = @ \cup {g.nargv[g.optind + 1]},
                   !.ret = -2, !.site = "W"]

\* lines 285-309: -W long-option
short_W(g, pl, optchar) ==
    IF At(pl, 0) # NUL
    THEN [g EXCEPT !.ret = -2, !.site = "W"]
    ELSE IF g.optind + 1 >= nargc
    THEN \* no arg
         [warn(g, "recargchar") EXCEPT
             !.optind = @ + 1, !.place = EMSG, !.place_in = NULLPTR,
             !.optopt = optchar, !.ret = BADARG, !.site = "Wnoarg"]
    ELSE \* white space
         [g EXCEPT !.optind = @ + 1,
                   !.place = ArgAt(g.nargv, g.optind + 1),
                   !.place_in = g.nargv[g.optind + 1],
                   !.cons = @ \cup {g.nargv[g.optind + 1]},
                   !.ret = -2, !.site = "W"]

\* short_noarg without the test of line 313: optind is advanced in mid-cluster
short_noarg_advances(g, pl, optchar) ==
    [g EXCEPT !.optind = @ + 1, !.ret = optchar, !.site = "short"]

\* lines 311-315, 344: the option doesn't take an argument
short_noarg(g, pl, optchar) ==
    [g EXCEPT !.optind = IF At(pl, 0) = NUL THEN @ + 1 ELSE @,
              !.ret = optchar, !.site = "short"]

\* short_arg without the test of line 323: an optional argument is taken from
\* the next token like a required one
short_arg_optional_takes_next(g, pl, oli, optchar) ==
    IF At(pl, 0) # NUL
    THEN [g EXCEPT !.optarg = pl, !.place = EMSG, !.place_in = NULLPTR,
                   !.optind = @ + 1, !.ret = optchar, !.site = "short"]
    ELSE IF g.optind + 1 >= nargc
    THEN [warn(g, "recargchar") EXCEPT
             !.optind = @ + 1, !.place = EMSG, !.place_in = NULLPTR,
             !.optopt = optchar, !.ret = BADARG, !.site = "shortnoarg"]
    ELSE [g EXCEPT !.optarg = ArgAt(g.nargv, g.optind + 1),
                   !.cons = @ \cup {g.nargv[g.optind + 1]},
                   !.place = EMSG, !.place_in = NULLPTR, !.optind = @ + 2,
                   !.ret = optchar, !.site = "short"]

\* short_arg that leaves optind at a separate argument (line 341 skipped)
short_arg_keeps_argument(g, pl, oli, optchar) ==
    IF At(pl, 0) # NUL
    THEN [g EXCEPT !.optarg = pl, !.place = EMSG, !.place_in = NULLPTR,
                   !.optind = @ + 1, !.ret = optchar, !.site = "short"]
    ELSE IF At(options, oli + 1) # COLON
    THEN IF g.optind + 1 >= nargc
         THEN [warn(g, "recargchar") EXCEPT
                  !.optind = @ + 1, !.place = EMSG, !.place_in = NULLPTR,
                  !.optopt = optchar, !.ret = BADARG, !.site = "shortnoarg"]
         ELSE [g EXCEPT !.optarg = ArgAt(g.nargv, g.optind + 1),
                        !.cons = @ \cup {g.nargv[g.optind + 1]},
                        !.place = EMSG, !.place_in = NULLPTR, !.optind = @ + 1,
                        !.ret = optchar, !.site = "short"]
    ELSE [g EXCEPT !.place = EMSG, !.place_in = NULLPTR, !.optind = @ + 1,
                   !.ret = optchar, !.site = "short"]

\* lines 317-344: the option takes an argument, optional if oli[1] is ':'
short_arg(g, pl, oli, optchar) ==
    IF At(pl, 0) # NUL
    THEN \* no white space
         [g EXCEPT !.optarg = pl, !.place = EMSG, !.place_in = NULLPTR,
                   !.optind = @ + 1, !.ret = optchar, !.site = "short"]
    ELSE IF At(options, oli + 1) # COLON
    THEN \* arg not optional
         IF g.optind + 1 >= nargc
         THEN \* no arg
              [warn(g, "recargchar") EXCEPT
                  !.optind = @ + 1, !.place = EMSG, !.place_in = NULLPTR,
                  !.optopt = optchar, !.ret = BADARG, !.site = "shortnoarg"]
         ELSE [g EXCEPT !.optarg = ArgAt(g.nargv, g.optind + 1),
                        !.cons = @ \cup {g.nargv[g.optind + 1]},
                        !.place = EMSG, !.place_in = NULLPTR, !.optind = @ + 2,
                        !.ret = optchar, !.site = "short"]
    ELSE [g EXCEPT !.place = EMSG, !.place_in = NULLPTR, !.optind = @ + 1,
                   !.ret = optchar, !.site = "short"]

\* lines 273-345: one character of an option cluster; oli is the offset in
\* options of the character found, after the ++ of line 310 in short_arg
short_option(s) ==
    LET optchar == At(s.place, 0)
        pl      == Plus(s.place, 1)                                  \* *place++
        oli     == strchr(options, IF IGNORE_FIRST THEN 1 ELSE 0, optchar)
        g       == [s EXCEPT !.place = pl, !.optchar = optchar, !.tokind = s.optind,
                             !.ptok = s.place_in]
    IN  IF optchar = COLON \/ oli = -1
        THEN short_unknown(g, pl, optchar)
        ELSE IF optchar = CH_W /\ At(options, oli + 1) = SEMI
        THEN short_W(g, pl, optchar)
        ELSE IF At(options, oli + 1) # COLON
        THEN short_noarg(g, pl, optchar)
        ELSE short_arg(g, pl, oli + 1, optchar)

\* end_of_vector without line 225: optind is left behind the skipped operands
end_of_vector_norewind(s) ==
    LET s2 == [s EXCEPT !.place = EMSG, !.place_in = NULLPTR]
        s3 == IF s2.nonopt_end # -1
              THEN [call_permute(s2, s2.nonopt_start, s2.nonopt_end, s2.optind)
                       EXCEPT !.optind = @ - (s2.nonopt_end - s2.nonopt_start)]
              ELSE s2
    IN  [s3 EXCEPT !.nonopt_start = -1, !.nonopt_end = -1,
                   !.ret = -1, !.site = "end"]

\* end_of_vector that tests nonopt_start at line 211: permute_args is called
\* also when no option followed the skipped operands
end_of_vector_permutes_always(s) ==
    LET s2 == [s EXCEPT !.place = EMSG, !.place_in = NULLPTR]
        s3 == IF s2.nonopt_start # -1
              THEN [call_permute(s2, s2.nonopt_start, s2.nonopt_end, s2.optind)
                       EXCEPT !.optind = @ - (s2.nonopt_end - s2.nonopt_start)]
              ELSE s2
    IN  [s3 EXCEPT !.nonopt_start = -1, !.nonopt_end = -1,
                   !.ret = -1, !.site = "end"]

\* lines 209-229: end of argument vector
end_of_vector(s) ==
    LET s2 == [s EXCEPT !.place = EMSG, !.place_in = NULLPTR]
        s3 == IF s2.nonopt_end # -1
              THEN [call_permute(s2, s2.nonopt_start, s2.nonopt_end, s2.optind)
                       EXCEPT !.optind = @ - (s2.nonopt_end - s2.nonopt_start)]
              ELSE IF s2.nonopt_start # -1
              THEN [s2 EXCEPT !.optind = s2.nonopt_start]
              ELSE s2
    IN  [s3 EXCEPT !.nonopt_start = -1, !.nonopt_end = -1,
                   !.ret = -1, !.site = "end"]

\* lines 204-272 (label start), then short_option
RECURSIVE scan(_)
scan(s) ==
    IF s.optreset # 0 \/ At(s.place, 0) = NUL
    THEN \* update scanning pointer
         LET s1 == [s EXCEPT !.optreset = 0]
         IN  IF s1.optind >= nargc
             THEN end_of_vector(s1)
             ELSE LET tok == ArgAt(s1.nargv, s1.optind)
                  IN  IF At(tok, 0) # DASH \/ At(tok, 1) = NUL
                      THEN \* found non-option
                           LET s2 == [s1 EXCEPT !.place = EMSG, !.place_in = NULLPTR]
                           IN  IF IN_ORDER
                               THEN [s2 EXCEPT !.optarg = tok, !.optind = @ + 1,
                                               !.ret = INORDER, !.site = "inorder"]
                               ELSE IF ~PERMUTE
                               THEN [s2 EXCEPT !.ret = -1, !.site = "stop"]
                               ELSE \* do permutation
                                    LET s3 == IF s2.nonopt_start = -1
                                              THEN [s2 EXCEPT !.nonopt_start = s2.optind]
                                              ELSE IF s2.nonopt_end # -1
                                              THEN [call_permute(s2, s2.nonopt_start,
                                                                 s2.nonopt_end, s2.optind)
                                                       EXCEPT
                                                       !.nonopt_start = s2.optind -
                                                           (s2.nonopt_end - s2.nonopt_start),
                                                       !.nonopt_end = -1]
                                              ELSE s2
                                    IN  scan([s3 EXCEPT !.optind = @ + 1])
                      ELSE LET s2 == [s1 EXCEPT
                                         !.nonopt_end = IF s1.nonopt_start # -1 /\ @ = -1
                                                        THEN s1.optind ELSE @,
                                         !.met = s1.nargv[s1.optind],
                                         !.place_in = s1.nargv[s1.optind],
                                         !.cons = @ \cup {s1.nargv[s1.optind]}]
                           IN  IF At(tok, 1) # NUL /\ At(tok, 1) = DASH
                               THEN \* found "--"
                                    [s2 EXCEPT !.place = Plus(tok, 2),
                                               !.ret = -2, !.site = "dashdash"]
                               ELSE short_option([s2 EXCEPT !.place = Plus(tok, 1)])
    ELSE short_option(s)

\* getopt_internal without lines 202-203: optreset leaves nonopt_start and
\* nonopt_end as they were
getopt_internal_keeps_nonopt(s) ==
    LET s1 == [s EXCEPT !.optarg = NULL,
                        !.optind = IF @ = 0 THEN 1 ELSE @]
    IN  scan(s1)

\* lines 189-203, then the scan
getopt_internal(s) ==
    LET s1 == [s EXCEPT !.optarg = NULL,
                        !.optind = IF @ = 0 THEN 1 ELSE @]
        s2 == IF s1.optreset # 0
              THEN [s1 EXCEPT !.nonopt_start = -1, !.nonopt_end = -1]
              ELSE s1
    IN  scan(s2)

\* ------------------------------------------------------------------ getopt
\* lines 364-378: the end-of-options handling shared by both entry points
\* (getopt: every -2; getopt_long: lines 420-437, an empty current_argv)
\* end_of_options with optind set as at line 225, to the first skipped operand
end_of_options_rewind(s) ==
    LET s1 == IF s.nonopt_end # -1
              THEN [call_permute(s, s.nonopt_start, s.nonopt_end, s.optind)
                       EXCEPT !.optind = s.nonopt_start]
              ELSE s
    IN  [s1 EXCEPT !.nonopt_start = -1, !.nonopt_end = -1,
                   !.ret = -1, !.site = "terminator"]

end_of_options(s) ==
    LET s1 == IF s.nonopt_end # -1
              THEN [call_permute(s, s.nonopt_start, s.nonopt_end, s.optind)
                       EXCEPT !.optind = @ - (s.nonopt_end - s.nonopt_start)]
              ELSE s
    IN  [s1 EXCEPT !.nonopt_start = -1, !.nonopt_end = -1,
                   !.ret = -1, !.site = "terminator"]

getopt(s) ==
    LET r == getopt_internal(s)
    IN  IF r.ret = -2
        THEN end_of_options([r EXCEPT !.optind = @ + 1])
        ELSE r

\* ------------------------------------------------------------------ getopt_long
\* long_options[i], i from 0
LO(i) == long_options[i + 1]

\* #define IDENTICAL_INTERPRETATION(_x, _y)
IDENTICAL_INTERPRETATION(x, y) ==
    /\ LO(x).has_arg = LO(y).has_arg
    /\ LO(x).flag = LO(y).flag
    /\ LO(x).val = LO(y).val

\* match_loop where an exact match does not clear ambiguous (line 459 missing)
RECURSIVE match_loop_keeps_ambiguous(_, _, _, _, _)
match_loop_keeps_ambiguous(current_argv, current_argv_len, i, match, ambiguous) ==
    IF i >= Len(long_options) THEN <<match, ambiguous>>
    ELSE IF ~strncmp_eq(current_argv, LO(i).name, current_argv_len)
    THEN match_loop_keeps_ambiguous(current_argv, current_argv_len, i + 1, match, ambiguous)
    ELSE IF strlen(LO(i).name) = current_argv_len
    THEN <<i, ambiguous>>
    ELSE IF match = -1
    THEN match_loop_keeps_ambiguous(current_argv, current_argv_len, i + 1, i, ambiguous)
    ELSE IF ~IDENTICAL_INTERPRETATION(i, match)
    THEN match_loop_keeps_ambiguous(current_argv, current_argv_len, i + 1, match, 1)
    ELSE match_loop_keeps_ambiguous(current_argv, current_argv_len, i + 1, match, ambiguous)

\* lines 449-469: the loop over the table; yields <<match, ambiguous>>
RECURSIVE match_loop(_, _, _, _, _)
match_loop(current_argv, current_argv_len, i, match, ambiguous) ==
    IF i >= Len(long_options) THEN <<match, ambiguous>>
    ELSE IF ~strncmp_eq(current_argv, LO(i).name, current_argv_len)
    THEN match_loop(current_argv, current_argv_len, i + 1, match, ambiguous)
    ELSE IF strlen(LO(i).name) = current_argv_len
    THEN <<i, 0>>                                               \* exact match
    ELSE IF match = -1
    THEN match_loop(current_argv, current_argv_len, i + 1, i, ambiguous)
    ELSE IF ~IDENTICAL_INTERPRETATION(i, match)
    THEN match_loop(current_argv, current_argv_len, i + 1, match, 1)
    ELSE match_loop(current_argv, current_argv_len, i + 1, match, ambiguous)

\* long_optopt without the test of flag: always the entry's val
long_optopt_val(match) == LO(match).val

\* optopt on the argument errors of a long option (lines 485-488, 514-517)
long_optopt(match) == IF LO(match).flag = 0 THEN LO(match).val ELSE 0

\* long_result without line 533: val is returned also when it was written back
long_result_returns_val(s, match) ==
    LET s1 == IF LO(match).flag # 0
              THEN [s EXCEPT !.flagmem[LO(match).flag] = LO(match).val,
                             !.ret = LO(match).val]
              ELSE [s EXCEPT !.ret = LO(match).val]
    IN  [s1 EXCEPT !.idx = IF has_idx THEN match ELSE @, !.site = "long"]

\* lines 530-541: the result of a resolved long option
long_result(s, match) ==
    LET s1 == IF LO(match).flag # 0
              THEN [s EXCEPT !.flagmem[LO(match).flag] = LO(match).val, !.ret = 0]
              ELSE [s EXCEPT !.ret = LO(match).val]
    IN  [s1 EXCEPT !.idx = IF has_idx THEN match ELSE @, !.site = "long"]

\* long_argument without line 518: optind is not rolled back on a missing argument
long_argument_no_rollback(s, match, current_argv, has_equal) ==
    IF match = -1
    THEN [warn(s, "illoptstring") EXCEPT !.optopt = 0, !.ret = BADCH, !.site = "unknown"]
    ELSE IF LO(match).has_arg = no_argument /\ has_equal # NULL
    THEN [warn(s, "noarg") EXCEPT
             !.optopt = long_optopt(match), !.ret = BADARG, !.site = "noarg"]
    ELSE LET takes == LO(match).has_arg = required_argument \/
                      LO(match).has_arg = optional_argument
             s1 == IF takes /\ has_equal # NULL
                   THEN [s EXCEPT !.optarg = has_equal]
                   ELSE IF takes /\ LO(match).has_arg = required_argument
                   THEN IF s.optind > nargc
                        THEN [s EXCEPT !.trapped = TRUE]
                        ELSE [s EXCEPT !.optarg = ArgAt(s.nargv, s.optind),
                                       !.cons = @ \cup ({s.nargv[s.optind]} \ {NULLPTR}),
                                       !.optind = @ + 1]
                   ELSE s
         IN  IF LO(match).has_arg = required_argument /\ s1.optarg = NULL
             THEN [warn(s1, "recargstring") EXCEPT
                      !.optopt = long_optopt(match),
                      !.ret = BADARG, !.site = "missing"]
             ELSE long_result(s1, match)

\* long_argument whose line 518 rolls optind back over the option token too
long_argument_rolls_back_token(s, match, current_argv, has_equal) ==
    IF match = -1
    THEN [warn(s, "illoptstring") EXCEPT !.optopt = 0, !.ret = BADCH, !.site = "unknown"]
    ELSE IF LO(match).has_arg = no_argument /\ has_equal # NULL
    THEN [warn(s, "noarg") EXCEPT
             !.optopt = long_optopt(match), !.ret = BADARG, !.site = "noarg"]
    ELSE LET takes == LO(match).has_arg = required_argument \/
                      LO(match).has_arg = optional_argument
             s1 == IF takes /\ has_equal # NULL
                   THEN [s EXCEPT !.optarg = has_equal]
                   ELSE IF takes /\ LO(match).has_arg = required_argument
                   THEN IF s.optind > nargc
                        THEN [s EXCEPT !.trapped = TRUE]
                        ELSE [s EXCEPT !.optarg = ArgAt(s.nargv, s.optind),
                                       !.cons = @ \cup ({s.nargv[s.optind]} \ {NULLPTR}),
                                       !.optind = @ + 1]
                   ELSE s
         IN  IF LO(match).has_arg = required_argument /\ s1.optarg = NULL
             THEN [warn(s1, "recargstring") EXCEPT
                      !.optopt = long_optopt(match), !.optind = @ - 2,
                      !.ret = BADARG, !.site = "missing"]
             ELSE long_result(s1, match)

\* lines 478-529: the argument handling of the entry match (-1: none)
long_argument(s, match, current_argv, has_equal) ==
    IF match = -1
    THEN \* unknown option
         [warn(s, "illoptstring") EXCEPT !.optopt = 0, !.ret = BADCH, !.site = "unknown"]
    ELSE IF LO(match).has_arg = no_argument /\ has_equal # NULL
    THEN [warn(s, "noarg") EXCEPT
             !.optopt = long_optopt(match), !.ret = BADARG, !.site = "noarg"]
    ELSE LET takes == LO(match).has_arg = required_argument \/
                      LO(match).has_arg = optional_argument
             s1 == IF takes /\ has_equal # NULL
                   THEN [s EXCEPT !.optarg = has_equal]
                   ELSE IF takes /\ LO(match).has_arg = required_argument
                   THEN IF s.optind > nargc
                        THEN [s EXCEPT !.trapped = TRUE]
                        ELSE [s EXCEPT !.optarg = ArgAt(s.nargv, s.optind),
                                       !.cons = @ \cup ({s.nargv[s.optind]} \ {NULLPTR}),
                                       !.optind = @ + 1]
                   ELSE s
         IN  IF LO(match).has_arg = required_argument /\ s1.optarg = NULL
             THEN \* missing argument
                  [warn(s1, "recargstring") EXCEPT
                      !.optopt = long_optopt(match), !.optind = @ - 1,
                      !.ret = BADARG, !.site = "missing"]
             ELSE long_result(s1, match)

getopt_long(s) ==
    LET r == getopt_internal(s)
    IN  IF r.ret # -2 THEN r
        ELSE LET current_argv == r.place
                 r1 == [r EXCEPT !.optind = @ + 1, !.place = EMSG, !.place_in = NULLPTR,
                                 !.current_argv = current_argv]
             IN  IF At(current_argv, 0) = NUL
                 THEN end_of_options(r1)
                 ELSE LET eq == strchr(current_argv, 0, EQUAL)
                          has_equal == IF eq # -1 THEN Plus(current_argv, eq + 1) ELSE NULL
                          current_argv_len == IF eq # -1 THEN eq ELSE strlen(current_argv)
                          m == match_loop(current_argv, current_argv_len, 0, -1, 0)
                          r2 == [r1 EXCEPT !.match = m[1]]
                      IN  IF m[2] # 0
                          THEN \* ambiguous abbreviation
                               [warn(r2, "ambig") EXCEPT
                                   !.optopt = 0, !.ret = BADCH, !.site = "ambig"]
                          ELSE long_argument(r2, m[1], current_argv, has_equal)

\* ------------------------------------------------------------------ the caller
\* the globals and statics as one record, with the per-call observations cleared
Cur ==
    [nargv |-> nargv, optind |-> optind, optopt |-> optopt, optreset |-> optreset,
     optarg |-> optarg, place |-> place, place_in |-> place_in,
     nonopt_start |-> nonopt_start,
     nonopt_end |-> nonopt_end, flagmem |-> flagmem, idx |-> idx,
     cons |-> cons, trapped |-> trapped,
     ret |-> 0, site |-> "", met |-> NULLPTR, tokind |-> -1, ptok |-> NULLPTR,
     optchar |-> NUL,
     match |-> -1, current_argv |-> EMSG, diag |-> "none", pcalls |-> <<>>]

\* the state after a call that left r
Return(r, func) ==
    /\ nargv' = r.nargv
    /\ optind' = r.optind
    /\ optopt' = r.optopt
    /\ optreset' = r.optreset
    /\ optarg' = r.optarg
    /\ place' = r.place
    /\ place_in' = r.place_in
    /\ nonopt_start' = r.nonopt_start
    /\ nonopt_end' = r.nonopt_end
    /\ flagmem' = r.flagmem
    /\ idx' = r.idx
    /\ cons' = r.cons
    /\ trapped' = r.trapped
    /\ last' = [func |-> func, ret |-> r.ret, prev |-> last.ret, site |-> r.site,
                met |-> r.met, tokind |-> r.tokind, ptok |-> r.ptok,
                optchar |-> r.optchar,
                match |-> r.match, current_argv |-> r.current_argv,
                diag |-> r.diag, pcalls |-> r.pcalls,
                optind0 |-> optind, place0 |-> place, pin0 |-> place_in,
                flagmem0 |-> flagmem, idx0 |-> idx,
                seen |-> last.seen \/ r.ret = -1,
                first |-> r.ret = -1 /\ ~last.seen]
    /\ UNCHANGED <<nargc, argstr, options, long_options, has_idx, posix, caller, opterr>>

\* the caller's loop calls getopt_long(nargc, nargv, options, long_options, idx)
CallGetoptLong ==
    /\ caller = "getopt_long"
    /\ ~trapped
    /\ Return(getopt_long(Cur), "getopt_long")

\* the caller's loop calls getopt(nargc, nargv, options)
CallGetopt ==
    /\ caller = "getopt"
    /\ ~trapped
    /\ Return(getopt(Cur), "getopt")

Next == CallGetoptLong \/ CallGetopt

\* ------------------------------------------------------------------ inputs
\* the strings of the vectors
Operand  == <<Ch.x>>
BareDash == <<DASH>>
DashDash == <<DASH, DASH>>

\* vectors of n arguments after the program name, drawn from Toks
RECURSIVE VectorsOf(_, _)
VectorsOf(Toks, n) ==
    IF n = 0 THEN {<< <<Ch.p>> >>}
    ELSE {Append(v, t) : v \in VectorsOf(Toks, n - 1), t \in Toks}

VectorsUpTo(Toks, n) == UNION {VectorsOf(Toks, k) : k \in 0..n}

\* the state before the first call (lines 38-42, 77-80) for the chosen inputs
InitWith(Vectors, Specs, Tables, Posix, Callers, Idxs, Opterrs) ==
    /\ \E v \in Vectors :
          /\ nargc = Len(v)
          /\ argstr = [i \in 0..(Len(v) - 1) |-> v[i + 1]]
          /\ nargv = [i \in 0..Len(v) |-> IF i < Len(v) THEN i ELSE NULLPTR]
    /\ options \in Specs
    /\ long_options \in Tables
    /\ posix \in Posix
    /\ caller \in Callers
    /\ has_idx \in Idxs
    /\ opterr \in Opterrs
    /\ optind = 1
    /\ optopt = QMARK
    /\ optreset = 0
    /\ optarg = NULL
    /\ place = EMSG
    /\ place_in = NULLPTR
    /\ nonopt_start = -1
    /\ nonopt_end = -1
    /\ flagmem = [d \in 1..2 |-> -7]
    /\ idx = -7
    /\ cons = {}
    /\ trapped = FALSE
    /\ last = [func |-> "", ret |-> -3, prev |-> -3, site |-> "", met |-> NULLPTR,
               tokind |-> -1, ptok |-> NULLPTR, optchar |-> NUL, match |-> -1,
               current_argv |-> EMSG,
               diag |-> "none", pcalls |-> <<>>, optind0 |-> 1, place0 |-> EMSG,
               pin0 |-> NULLPTR, flagmem0 |-> [d \in 1..2 |-> -7], idx0 |-> -7,
               seen |-> FALSE, first |-> FALSE]

\* the short-option spec "aeb:c::W;" behind each mode prefix
SpecBody == <<Ch.a, Ch.e, Ch.b, COLON, Ch.c, COLON, COLON, CH_W, SEMI>>
ModeSpecs  == {SpecBody, <<PLUS>> \o SpecBody, <<DASH>> \o SpecBody}
ColonSpecs == {SpecBody, <<COLON>> \o SpecBody, <<PLUS, COLON>> \o SpecBody,
               <<DASH>> \o SpecBody}

\* two long-option tables; flag is 0 for NULL, else the int it points at
TableA ==
    << [name |-> <<Ch.v, Ch.e, Ch.x>>, has_arg |-> required_argument, flag |-> 0, val |-> 1],
       [name |-> <<Ch.v, Ch.e, Ch.r>>, has_arg |-> optional_argument, flag |-> 1, val |-> 2],
       [name |-> <<Ch.v, Ch.e>>,       has_arg |-> no_argument,       flag |-> 0, val |-> 3],
       [name |-> <<Ch.n, Ch.a>>,       has_arg |-> no_argument,       flag |-> 2, val |-> 4],
       [name |-> <<Ch.n, Ch.b>>,       has_arg |-> no_argument,       flag |-> 2, val |-> 4] >>
TableB ==
    << [name |-> <<Ch.v, Ch.e>>,       has_arg |-> optional_argument, flag |-> 0, val |-> 5],
       [name |-> <<Ch.v, Ch.e, Ch.x>>, has_arg |-> required_argument, flag |-> 1, val |-> 6],
       [name |-> <<Ch.n, Ch.a>>,       has_arg |-> required_argument, flag |-> 0, val |-> Ch.a],
       [name |-> <<Ch.n, Ch.b>>,       has_arg |-> required_argument, flag |-> 0, val |-> Ch.a] >>

\* the longest vector (arguments after the program name) of the permutation family
MaxArgs == 4

\* operands, the terminator, a plain option, an option and a long option that
\* take the next argument, and -W that takes the next argument as a long option
PermToks == {Operand, BareDash, DashDash, <<DASH, Ch.a>>, <<DASH, Ch.b>>,
             <<DASH, DASH, Ch.v, Ch.e, Ch.x>>, <<DASH, CH_W>>}

Init ==
    InitWith(VectorsUpTo(PermToks, MaxArgs), ModeSpecs, {TableA},
             BOOLEAN, {"getopt", "getopt_long"}, {TRUE}, {1})

Spec == Init /\ [][Next]_vars

\* ------------------------------------------------------------------ properties
\* a string the scanner takes for an operand: not starting with '-', or "-"
IsOperand(str) == At(str, 0) # DASH \/ At(str, 1) = NUL

\* the pointers in nargv[lo..hi] are in the order the caller passed them
InOrder(lo, hi) == \A i, j \in lo..hi : i < j => nargv[i] < nargv[j]

\* C1: in permutation mode, when getopt_long first returns -1 the vector holds
\* exactly the strings passed, nargv[1..optind-1] holds the option tokens with
\* the arguments they consumed and the terminator in their original order, and
\* nargv[optind..nargc-1] holds the operands in their original order.
C1_PermutationGroups ==
    (caller = "getopt_long" /\ ~posix /\ At(options, 0) \notin {DASH, PLUS}
        /\ last.first)
    => /\ nargv[0] = 0 /\ nargv[nargc] = NULLPTR
       /\ {nargv[i] : i \in 0..(nargc - 1)} = 0..(nargc - 1)
       /\ optind \in 1..nargc
       /\ {nargv[i] : i \in 1..(optind - 1)} = cons
       /\ InOrder(1, optind - 1)
       /\ InOrder(optind, nargc - 1)
       /\ last.site = "end" =>
             \A i \in optind..(nargc - 1) : IsOperand(argstr[nargv[i]])

\* C1 witness: a parse that ended after moving two operands behind two options
C1_Witness ==
    /\ caller = "getopt_long" /\ ~posix /\ At(options, 0) \notin {DASH, PLUS}
    /\ last.first
    /\ \E k \in 1..Len(last.pcalls) :
          /\ last.pcalls[k][2] - last.pcalls[k][1] = 2
          /\ last.pcalls[k][3] - last.pcalls[k][2] = 2
    /\ optind = 3 /\ nargc = 5

\* the tokens from optind on cannot restart the scan: in permutation mode all
\* are operands, in in-order mode there is none, otherwise the first is an operand
NothingToScan ==
    IF PERMUTE THEN \A i \in optind..(nargc - 1) : IsOperand(argstr[nargv[i]])
    ELSE IF IN_ORDER THEN optind >= nargc
    ELSE optind >= nargc \/ IsOperand(argstr[nargv[optind]])

\* the last call returned -1 at the end of the vector, at an operand in
\* no-permutation mode, or at a "--" that leaves nothing to scan
SettledEnd ==
    /\ last.ret = -1
    /\ \/ last.site \in {"end", "stop"}
       \/ /\ last.site = "terminator"
          /\ last.met # NULLPTR
          /\ argstr[last.met] = DashDash
          /\ NothingToScan

\* C2 as stated: once a call has returned -1, every later call returns -1 and
\* leaves optind and the vector order unchanged, in every mode and also after
\* a "--" that is followed by tokens starting with '-'.
C2_Original ==
    [][last.ret = -1 => (last'.ret = -1 /\ optind' = optind /\ nargv' = nargv)]_vars

\* C2 amended: once a call has returned -1 because the vector was exhausted,
\* because an operand was met in no-permutation mode, or at a "--" after which
\* nothing is left to scan, every later call returns -1 and leaves optind and
\* the vector order unchanged.
C2_SettledEndIsStable ==
    [][SettledEnd => (last'.ret = -1 /\ optind' = optind /\ nargv' = nargv /\ SettledEnd')]_vars

\* C2 witness: a second -1 in permutation mode with operands left behind optind
C2_Witness ==
    /\ last.ret = -1 /\ last.prev = -1 /\ last.site = "end"
    /\ PERMUTE /\ optind < nargc /\ optind > 1

\* the last call met a token that is exactly "--"
MetTerminator == last.met # NULLPTR /\ argstr[last.met] = DashDash

\* the slot of nargv that holds the pointer q
SlotOf(q) == CHOOSE i \in 0..(nargc - 1) : nargv[i] = q

\* C3: a call that meets the token "--" returns -1 and leaves "--" before
\* optind; every token that followed it in the vector the caller passed lies in
\* nargv[optind..nargc-1] in its original order, preceded only by operands
\* that were passed before the "--" and not scanned as options or arguments.
C3_Terminator ==
    MetTerminator
    => /\ last.ret = -1
       /\ optind \in 1..nargc
       /\ SlotOf(last.met) < optind
       /\ \A q \in (last.met + 1)..(nargc - 1) : SlotOf(q) >= optind
       /\ \A i, j \in optind..(nargc - 1) :
             /\ (i < j /\ nargv[i] > last.met /\ nargv[j] > last.met) => nargv[i] < nargv[j]
             /\ (nargv[i] < last.met /\ nargv[j] > last.met) => i < j
             /\ nargv[i] < last.met =>
                   nargv[i] \notin cons /\ IsOperand(argstr[nargv[i]])

\* C3 witness: "--" met behind a deferred operand and in front of a token that
\* starts with '-'
C3_Witness ==
    /\ MetTerminator
    /\ nargc = 4 /\ last.met = 2 /\ optind = 2
    /\ nargv[2] = 1 /\ nargv[3] = 3
    /\ At(argstr[3], 0) = DASH /\ At(argstr[3], 1) # NUL

\* ------------------------------------------------------------------ the long-option matcher
\* the longest long-option table of the matcher family
MaxTable == 3

\* entries: three names, and four interpretations that differ from the first
\* in has_arg, in flag and in val
MatchNames == {<<Ch.v>>, <<Ch.v, Ch.e>>, <<Ch.v, Ch.x>>}
MatchEntries ==
    {[name |-> n, has_arg |-> i[1], flag |-> i[2], val |-> i[3]] :
        n \in MatchNames,
        i \in {<<no_argument, 0, 1>>, <<required_argument, 0, 1>>,
               <<no_argument, 1, 1>>, <<no_argument, 0, 2>>}}

RECURSIVE TablesOf(_)
TablesOf(n) ==
    IF n = 0 THEN {<<>>}
    ELSE {Append(t, e) : t \in TablesOf(n - 1), e \in MatchEntries}

\* tokens --text and --text=x
MatchToks ==
    {<<DASH, DASH>> \o t \o e :
        t \in {<<>>, <<Ch.v>>, <<Ch.v, Ch.e>>, <<Ch.v, Ch.x>>, <<Ch.z>>},
        e \in {<<>>, <<EQUAL, Ch.x>>}} \ {DashDash}

InitMatch ==
    InitWith({<< <<Ch.p>>, t >> : t \in MatchToks} \cup
             {<< <<Ch.p>>, t, Operand >> : t \in MatchToks},
             {SpecBody}, UNION {TablesOf(k) : k \in 0..MaxTable},
             {FALSE}, {"getopt", "getopt_long"}, {TRUE}, {1})

SpecMatch == InitMatch /\ [][Next]_vars

\* the text of a token --text or --text=value: what lies between "--" and the first '='
RECURSIVE UpToEqual(_)
UpToEqual(str) ==
    IF str = <<>> \/ Head(str) = EQUAL THEN <<>>
    ELSE <<Head(str)>> \o UpToEqual(Tail(str))

IsLongToken(str) == Len(str) > 2 /\ str[1] = DASH /\ str[2] = DASH
TextOf(str) == UpToEqual(SubSeq(str, 3, Len(str)))

IsPrefixOf(t, name) == Len(t) <= Len(name) /\ SubSeq(name, 1, Len(t)) = t

\* the entries (from 0) named text, and those text is a prefix of
ExactEntries(text)  == {i \in 0..(Len(long_options) - 1) : LO(i).name = text}
PrefixEntries(text) == {i \in 0..(Len(long_options) - 1) : IsPrefixOf(text, LO(i).name)}
SameInterpretation(S) ==
    \A i, j \in S : /\ LO(i).has_arg = LO(j).has_arg
                    /\ LO(i).flag = LO(j).flag
                    /\ LO(i).val = LO(j).val
Least(S) == CHOOSE i \in S : \A j \in S : i <= j

\* C4: getopt_long resolves --text and --text=value to the first entry named
\* text if there is one; else to the first entry text is a prefix of, if all
\* such entries agree in has_arg, flag and val; else the call is the
\* "ambiguous" error if there are such entries and the "unknown option" error
\* if there are none, both returning '?' with optopt = 0.
C4_LongMatch ==
    (last.func = "getopt_long" /\ last.met # NULLPTR /\ IsLongToken(argstr[last.met]))
    => LET text == TextOf(argstr[last.met])
           ex   == ExactEntries(text)
           pre  == PrefixEntries(text)
       IN  IF ex # {}
           THEN last.match = Least(ex) /\ last.site \notin {"ambig", "unknown"}
           ELSE IF pre # {} /\ SameInterpretation(pre)
           THEN last.match = Least(pre) /\ last.site \notin {"ambig", "unknown"}
           ELSE IF pre # {}
           THEN last.site = "ambig" /\ last.ret = QMARK /\ optopt = 0
           ELSE last.site = "unknown" /\ last.ret = QMARK /\ optopt = 0

\* C4 witness: an exact match behind two partial matches that differ
C4_Witness ==
    /\ last.func = "getopt_long" /\ last.met # NULLPTR
    /\ argstr[last.met] = <<DASH, DASH, Ch.v>>
    /\ Len(long_options) = 3
    /\ LO(0).name = <<Ch.v, Ch.e>> /\ LO(1).name = <<Ch.v, Ch.x>>
    /\ LO(0).val # LO(1).val
    /\ LO(2).name = <<Ch.v>>
    /\ last.match = 2 /\ last.site = "long"

\* ------------------------------------------------------------------ options and their arguments
\* the longest vector (arguments after the program name) of the option family
MaxOptArgs == 2

\* clusters, options with inline, separate and missing arguments, an unknown
\* option, long options of every arity with and without =value, an operand
\* and the terminator
OptToks ==
    {Operand, DashDash,
     <<DASH, Ch.a>>, <<DASH, Ch.a, Ch.e>>, <<DASH, Ch.e, Ch.a, Ch.a>>,
     <<DASH, Ch.a, Ch.b>>, <<DASH, Ch.b>>, <<DASH, Ch.b, Ch.x>>,
     <<DASH, Ch.c>>, <<DASH, Ch.c, Ch.x>>, <<DASH, Ch.z>>,
     <<DASH, DASH, Ch.v, Ch.e, Ch.x>>, <<DASH, DASH, Ch.v, Ch.e, Ch.x, EQUAL, Ch.x>>,
     <<DASH, DASH, Ch.v, Ch.e, Ch.r>>, <<DASH, DASH, Ch.v, Ch.e, Ch.r, EQUAL, Ch.x>>,
     <<DASH, DASH, Ch.v, Ch.e>>, <<DASH, DASH, Ch.v, Ch.e, EQUAL, Ch.x>>,
     <<DASH, DASH, Ch.n>>, <<DASH, DASH, Ch.n, Ch.a, EQUAL, Ch.x>>}

InitOpt ==
    InitWith(VectorsUpTo(OptToks, MaxOptArgs), ColonSpecs, {TableA, TableB},
             {FALSE}, {"getopt", "getopt_long"}, BOOLEAN, {1})

SpecOpt == InitOpt /\ [][Next]_vars

\* the token the last call scanned a character of: the option token it met at
\* nargv[optind], else the token at nargv[optind] that place pointed into when
\* it was called; and the character's place in the token, from 1
ScannedTok ==
    IF last.met # NULLPTR THEN last.met
    ELSE IF /\ last.place0 # EMSG /\ last.pin0 # NULLPTR
            /\ last.optind0 < nargc /\ nargv[last.optind0] = last.pin0
    THEN last.pin0
    ELSE NULLPTR
ScannedAt ==
    IF last.met # NULLPTR THEN 2
    ELSE Len(argstr[last.pin0]) - Len(last.place0) + 1

\* how the spec declares c: "none" (not declared), "no", "required", "optional"
\* or "W;"
Declared(c) ==
    LET body == IF At(options, 0) \in {DASH, PLUS} THEN Plus(options, 1) ELSE options
        at   == {i \in 1..Len(body) : body[i] = c}
        k    == CHOOSE i \in at : \A j \in at : i <= j
    IN  IF c \in {COLON, SEMI, DASH, PLUS} \/ at = {} THEN "none"
        ELSE IF c = CH_W /\ At(body, k) = SEMI THEN "W;"
        ELSE IF At(body, k) # COLON THEN "no"
        ELSE IF At(body, k + 1) # COLON THEN "required"
        ELSE "optional"

\* a token -c1c2...cn, n >= 1, of options declared without argument
PureCluster(str) ==
    /\ Len(str) >= 2 /\ str[1] = DASH
    /\ \A k \in 2..Len(str) : Declared(str[k]) = "no"

\* C5: the call that scans the k-th option of a token -c1...cn of options
\* declared without argument returns ck with optarg NULL; optind is the
\* token's index after it if k < n and one more if k = n, and the scan goes on
\* at the next character, so n successive calls return c1, ..., cn in order.
C5_Cluster ==
    (ScannedTok # NULLPTR /\ PureCluster(argstr[ScannedTok]) /\ ScannedAt >= 2)
    => LET tok == argstr[ScannedTok]
           k   == ScannedAt
       IN  /\ last.ret = tok[k]
           /\ optarg = NULL
           /\ place = Plus(tok, k)
           /\ optind = IF k < Len(tok) THEN SlotOf(ScannedTok) ELSE SlotOf(ScannedTok) + 1
           /\ k < Len(tok) => place_in = ScannedTok

\* C5 witness: the third call on -eaa, behind an operand
C5_Witness ==
    /\ ScannedTok # NULLPTR
    /\ argstr[ScannedTok] = <<DASH, Ch.e, Ch.a, Ch.a>>
    /\ ScannedAt = 4 /\ last.ret = Ch.a /\ last.prev = Ch.a
    /\ nargc = 3 /\ ScannedTok = 2 /\ optind = 3

\* the last call scanned the k-th character of a token, an option declared as
\* how, and this character is (last = TRUE) or is not the last of the token
ScannedShort(how, atEnd) ==
    /\ ScannedTok # NULLPTR /\ ScannedAt >= 2
    /\ ~IsLongToken(argstr[ScannedTok]) /\ argstr[ScannedTok] # DashDash
    /\ Declared(argstr[ScannedTok][ScannedAt]) = how
    /\ (ScannedAt = Len(argstr[ScannedTok])) = atEnd

\* the entry the rule of C4 gives for text, -1 if it gives an error
ExpectedEntry(text) ==
    IF ExactEntries(text) # {} THEN Least(ExactEntries(text))
    ELSE IF PrefixEntries(text) # {} /\ SameInterpretation(PrefixEntries(text))
    THEN Least(PrefixEntries(text))
    ELSE -1

\* what follows the first '=' of a string, NULL if it has none
RECURSIVE AfterEqual(_)
AfterEqual(str) ==
    IF str = <<>> THEN NULL
    ELSE IF Head(str) = EQUAL THEN Tail(str)
    ELSE AfterEqual(Tail(str))

\* the last call was getopt_long meeting a token --text or --text=value whose
\* text resolves to an entry with this has_arg
MetLong(has_arg) ==
    /\ last.func = "getopt_long" /\ last.met # NULLPTR
    /\ IsLongToken(argstr[last.met])
    /\ ExpectedEntry(TextOf(argstr[last.met])) # -1
    /\ LO(ExpectedEntry(TextOf(argstr[last.met]))).has_arg = has_arg

\* the string of the token behind the one in slot i
NextTok(i) == argstr[nargv[i + 1]]

\* C6: a required argument is taken from the rest of the token (-afoo,
\* --name=foo), leaving optind one past the token, or else from the next token
\* (-a foo, --name foo) whatever it starts with, leaving optind two past the
\* token; both forms return the option (resolve the same entry) with that
\* argument in optarg.
C6_RequiredArgument ==
    /\ ScannedShort("required", FALSE)
       => /\ last.ret = argstr[ScannedTok][ScannedAt]
          /\ optarg = Plus(argstr[ScannedTok], ScannedAt)
          /\ optind = SlotOf(ScannedTok) + 1
    /\ (ScannedShort("required", TRUE) /\ SlotOf(ScannedTok) + 1 < nargc)
       => /\ last.ret = argstr[ScannedTok][ScannedAt]
          /\ optarg = NextTok(SlotOf(ScannedTok))
          /\ optind = SlotOf(ScannedTok) + 2
    /\ (MetLong(required_argument) /\ AfterEqual(argstr[last.met]) # NULL)
       => /\ last.site = "long"
          /\ last.match = ExpectedEntry(TextOf(argstr[last.met]))
          /\ optarg = AfterEqual(argstr[last.met])
          /\ optind = SlotOf(last.met) + 1
    /\ (MetLong(required_argument) /\ AfterEqual(argstr[last.met]) = NULL
           /\ SlotOf(last.met) + 1 < nargc)
       => /\ last.site = "long"
          /\ last.match = ExpectedEntry(TextOf(argstr[last.met]))
          /\ optarg = NextTok(SlotOf(last.met))
          /\ optind = SlotOf(last.met) + 2

\* C6 witness: -b takes the next token, which starts with '-', as its argument
C6_Witness ==
    /\ ScannedShort("required", TRUE)
    /\ nargc = 3 /\ ScannedTok = 1
    /\ argstr[1] = <<DASH, Ch.b>> /\ argstr[2] = <<DASH, Ch.a>>
    /\ optarg = <<DASH, Ch.a>> /\ optind = 3 /\ last.ret = Ch.b

\* C7: an optional argument is never taken from the next token: -a with
\* nothing behind it in the token and --name without =value return the option
\* with optarg NULL and optind one past the token, the scan going on at the
\* next token; only the rest of the token (-afoo) or =value supplies it.
C7_OptionalArgument ==
    /\ ScannedShort("optional", TRUE)
       => /\ last.ret = argstr[ScannedTok][ScannedAt]
          /\ optarg = NULL
          /\ optind = SlotOf(ScannedTok) + 1
          /\ place = EMSG
    /\ ScannedShort("optional", FALSE)
       => /\ last.ret = argstr[ScannedTok][ScannedAt]
          /\ optarg = Plus(argstr[ScannedTok], ScannedAt)
          /\ optind = SlotOf(ScannedTok) + 1
    /\ (MetLong(optional_argument) /\ AfterEqual(argstr[last.met]) = NULL)
       => /\ last.site = "long"
          /\ last.match = ExpectedEntry(TextOf(argstr[last.met]))
          /\ optarg = NULL
          /\ optind = SlotOf(last.met) + 1
          /\ place = EMSG
    /\ (MetLong(optional_argument) /\ AfterEqual(argstr[last.met]) # NULL)
       => /\ last.site = "long"
          /\ optarg = AfterEqual(argstr[last.met])
          /\ optind = SlotOf(last.met) + 1

\* C7 witness: -c in front of an operand returns 'c' without argument and
\* leaves the operand to the next call
C7_Witness ==
    /\ ScannedShort("optional", TRUE)
    /\ nargc = 3 /\ ScannedTok = 1
    /\ argstr[1] = <<DASH, Ch.c>> /\ argstr[2] = Operand
    /\ last.ret = Ch.c /\ optarg = NULL /\ optind = 2

\* the spec selects colon mode: ':' first, or first behind a '+' or '-'
ColonMode ==
    \/ At(options, 0) = COLON
    \/ At(options, 0) \in {PLUS, DASH} /\ At(options, 1) = COLON
ArgErrorCode == IF ColonMode THEN COLON ELSE QMARK

\* the last call left every write-back destination and *idx as they were
NothingWritten == flagmem = last.flagmem0 /\ idx = last.idx0

\* optopt for an argument error of the long-option entry e
EntryOptopt(e) == IF LO(e).flag = 0 THEN LO(e).val ELSE 0

\* C8: an option that requires an argument, has none in its token and is the
\* last token of the vector gives the missing-argument code (':' in colon mode,
\* else '?') with optarg NULL, nothing written back, optind = nargc, and
\* optopt the option character or, for a long option, the entry's val (0 if
\* the entry has a write-back destination).
C8_MissingArgument ==
    /\ (ScannedShort("required", TRUE) /\ SlotOf(ScannedTok) = nargc - 1)
       => /\ last.ret = ArgErrorCode
          /\ optarg = NULL
          /\ optopt = argstr[ScannedTok][ScannedAt]
          /\ optind = nargc
          /\ NothingWritten
    /\ (MetLong(required_argument) /\ AfterEqual(argstr[last.met]) = NULL
           /\ SlotOf(last.met) = nargc - 1)
       => /\ last.ret = ArgErrorCode
          /\ optarg = NULL
          /\ optopt = EntryOptopt(ExpectedEntry(TextOf(argstr[last.met])))
          /\ optind = nargc
          /\ NothingWritten

\* C8 witness: --vex, which requires an argument and writes back, as the last
\* token in colon mode
C8_Witness ==
    /\ MetLong(required_argument) /\ AfterEqual(argstr[last.met]) = NULL
    /\ SlotOf(last.met) = nargc - 1 /\ nargc = 3
    /\ LO(ExpectedEntry(TextOf(argstr[last.met]))).flag # 0
    /\ ColonMode /\ last.ret = COLON /\ optopt = 0 /\ optind = 3

\* C9: --text=value for an entry declared no_argument gives the argument-error
\* code (':' in colon mode, else '?') with optarg NULL, nothing written back,
\* optind one past the token and optopt the entry's val (0 if the entry has a
\* write-back destination).
C9_ForbiddenArgument ==
    (MetLong(no_argument) /\ AfterEqual(argstr[last.met]) # NULL)
    => /\ last.ret = ArgErrorCode
       /\ optarg = NULL
       /\ NothingWritten
       /\ optind = SlotOf(last.met) + 1
       /\ optopt = EntryOptopt(ExpectedEntry(TextOf(argstr[last.met])))

\* C9 witness: --na=x for an entry without argument that writes back
C9_Witness ==
    /\ MetLong(no_argument) /\ AfterEqual(argstr[last.met]) # NULL
    /\ LO(ExpectedEntry(TextOf(argstr[last.met]))).flag # 0
    /\ LO(ExpectedEntry(TextOf(argstr[last.met]))).val # 0
    /\ optopt = 0 /\ last.ret = QMARK

\* C10: when getopt_long resolves a long option, an entry with a write-back
\* destination has val stored there and the call returns 0, an entry without
\* one makes the call return val and no destination is written; *idx is set to
\* the entry's index when idx is supplied.
C10_LongResult ==
    (last.func = "getopt_long" /\ last.site = "long")
    => /\ last.match \in 0..(Len(long_options) - 1)
       /\ (last.met # NULLPTR /\ IsLongToken(argstr[last.met]))
             => last.match = ExpectedEntry(TextOf(argstr[last.met]))
       /\ LO(last.match).flag # 0
             => /\ flagmem = [last.flagmem0 EXCEPT ![LO(last.match).flag] = LO(last.match).val]
                /\ last.ret = 0
       /\ LO(last.match).flag = 0
             => /\ flagmem = last.flagmem0
                /\ last.ret = LO(last.match).val
       /\ idx = IF has_idx THEN last.match ELSE last.idx0

\* C10 witness: --ver resolved to the entry 1, which writes 2 back, idx supplied
C10_Witness ==
    /\ last.func = "getopt_long" /\ last.site = "long"
    /\ last.match = 1 /\ LO(1).flag = 1 /\ LO(1).val = 2
    /\ flagmem[1] = 2 /\ last.flagmem0[1] # 2 /\ last.ret = 0
    /\ has_idx /\ idx = 1 /\ last.idx0 # 1

\* ------------------------------------------------------------------ the cursor and the vector
\* how often the pointer q is in the slots 0..nargc-1 of the vector v
CountIn(v, q) == Cardinality({i \in 0..(nargc - 1) : v[i] = q})

\* C11: over the calls of a session optind decreases only in a call that
\* called permute_args and then returned -1, by no more than the length of the
\* operand block that call moved; and a call only reorders the vector: the
\* slots, the terminating null pointer and the number of times each string's
\* pointer is in the vector stay as they were.
C11_OptindAndVector ==
    [][/\ DOMAIN nargv' = DOMAIN nargv
       /\ nargv'[nargc] = NULLPTR
       /\ \A q \in 0..(nargc - 1) : CountIn(nargv', q) = CountIn(nargv, q)
       /\ optind' < optind
             => /\ last'.pcalls # <<>>
                /\ last'.site \in {"end", "terminator"}
                /\ LET c == last'.pcalls[Len(last'.pcalls)]
                   IN  optind - optind' <= c[2] - c[1]]_vars

\* C11 witness: a call that moved a block of two operands behind an option and
\* left optind lower than it found it
C11_Witness ==
    /\ last.pcalls # <<>>
    /\ last.pcalls[Len(last.pcalls)][2] - last.pcalls[Len(last.pcalls)][1] = 2
    /\ optind < last.optind0
    /\ \E i \in 1..(nargc - 2) : nargv[i] > nargv[i + 1]

\* ------------------------------------------------------------------ errors
\* one token for each error: an unknown option, an option and a long option
\* without their required argument, -W without a long option, an unknown long
\* option, an ambiguous abbreviation, a long option with a forbidden argument
ErrToks ==
    {Operand, <<DASH, Ch.z>>, <<DASH, Ch.a, Ch.z>>, <<DASH, Ch.b>>, <<DASH, CH_W>>,
     <<DASH, DASH, Ch.z>>, <<DASH, DASH, Ch.v>>, <<DASH, DASH, Ch.v, Ch.e, Ch.x>>,
     <<DASH, DASH, Ch.v, Ch.e, EQUAL, Ch.x>>, <<DASH, DASH, Ch.n, Ch.a, EQUAL, Ch.x>>}

\* the spec behind every prefix of mode characters and ':'
ErrSpecs == ColonSpecs \cup {<<PLUS>> \o SpecBody, <<DASH, COLON>> \o SpecBody}

InitErr ==
    InitWith(VectorsUpTo(ErrToks, MaxOptArgs), ErrSpecs, {TableA, TableB},
             {FALSE}, {"getopt", "getopt_long"}, {TRUE}, {0, 1})

SpecErr == InitErr /\ [][Next]_vars

\* the return statements of the errors
ShortErrors == {"badch", "shortnoarg", "Wnoarg"}
LongNameErrors == {"unknown", "ambig"}
LongArgErrors == {"noarg", "missing"}
ArgErrors == {"shortnoarg", "Wnoarg", "noarg", "missing"}

\* C12 as stated: on every error return optopt holds what identifies the
\* offending option, its character or, for a long option, a non-zero value of
\* an entry of the table.
C12_Original ==
    /\ last.site \in ShortErrors => optopt = last.optchar
    /\ last.site \in LongNameErrors \cup LongArgErrors
          => \E e \in 0..(Len(long_options) - 1) : optopt = LO(e).val /\ optopt # 0

\* C12: on every error return, printed or not, optopt is set: to the option
\* character for an unknown short option and a missing argument of a short
\* option (-W included); to the entry's val, or 0 if the entry has a write-back
\* destination, for a forbidden or missing argument of a long option; to 0 for
\* an unknown long option and an ambiguous abbreviation.
C12_OptoptOnError ==
    /\ last.site \in ShortErrors
          => /\ optopt = last.optchar /\ last.optchar # NUL
             /\ ScannedTok # NULLPTR => optopt = argstr[ScannedTok][ScannedAt]
    /\ last.site \in LongNameErrors => optopt = 0
    /\ last.site \in LongArgErrors
          => /\ last.match \in 0..(Len(long_options) - 1)
             /\ optopt = EntryOptopt(last.match)

\* C12 witness: with opterr 0, after -z has set optopt to 'z', an unknown long
\* option is reported without a message and optopt is 0
C12_Witness ==
    /\ opterr = 0 /\ last.diag = "none"
    /\ last.site = "unknown" /\ last.ret = QMARK
    /\ last.prev # -3 /\ optopt = 0
    /\ argstr[last.met] = <<DASH, DASH, Ch.z>>
    /\ argstr[1] = <<DASH, Ch.z>>

\* the last call returned from an error
ErrorReturn == last.site \in ShortErrors \cup LongNameErrors \cup LongArgErrors

\* C13 as stated: a message is written only with opterr non-zero and a spec
\* not beginning with ':'; with a spec beginning with ':' nothing is written
\* and every error is returned as ':'.
C13_Original ==
    /\ last.diag # "none" => opterr # 0 /\ At(options, 0) # COLON
    /\ (At(options, 0) = COLON /\ ErrorReturn)
          => last.diag = "none" /\ last.ret = COLON

\* C13: a message is written only with opterr non-zero and a spec not
\* beginning with ':'; with a spec beginning with ':' no error writes one, a
\* missing or forbidden argument is returned as ':' and an unknown option or
\* ambiguous abbreviation still as '?'.
C13_Diagnostics ==
    /\ last.diag # "none" => opterr # 0 /\ At(options, 0) # COLON /\ ErrorReturn
    /\ (At(options, 0) = COLON /\ ErrorReturn)
          => /\ last.diag = "none"
             /\ last.ret = IF last.site \in ArgErrors THEN COLON ELSE QMARK

\* C13 witness: opterr is 1, the spec begins with ':' and --vex without its
\* argument is returned as ':' with no message
C13_Witness ==
    /\ opterr = 1 /\ At(options, 0) = COLON
    /\ last.site = "missing" /\ last.ret = COLON /\ last.diag = "none"
    /\ argstr[last.met] = <<DASH, DASH, Ch.v, Ch.e, Ch.x>>

\* ------------------------------------------------------------------ permute_args alone
\* the longest vector permute_args is applied to
MaxPermLen == 7

\* a vector of nargc pointers in the caller's order and three indices
\* 0 <= start < end < opt_end <= nargc, held in nonopt_start, nonopt_end and
\* optind as at the calls of lines 215, 241 and 427
InitPermute ==
    /\ nargc \in 2..MaxPermLen
    /\ argstr = [i \in 0..(nargc - 1) |-> Operand]
    /\ nargv = [i \in 0..nargc |-> IF i < nargc THEN i ELSE NULLPTR]
    /\ nonopt_start \in 0..(nargc - 2)
    /\ nonopt_end \in (nonopt_start + 1)..(nargc - 1)
    /\ optind \in (nonopt_end + 1)..nargc
    /\ options = SpecBody
    /\ long_options = TableA
    /\ posix = FALSE
    /\ caller = "permute_args"
    /\ has_idx = FALSE
    /\ opterr = 1
    /\ optopt = QMARK
    /\ optreset = 0
    /\ optarg = NULL
    /\ place = EMSG
    /\ place_in = NULLPTR
    /\ flagmem = [d \in 1..2 |-> -7]
    /\ idx = -7
    /\ cons = {}
    /\ trapped = FALSE
    /\ last = [Cur EXCEPT !.site = "args"]

\* permute_args(nonopt_start, nonopt_end, optind, nargv)
CallPermuteArgs ==
    /\ caller = "permute_args"
    /\ last.site = "args"
    /\ LET r == call_permute(Cur, nonopt_start, nonopt_end, optind)
       IN  /\ nargv' = r.nargv
           /\ trapped' = r.trapped
           /\ last' = [r EXCEPT !.site = "permuted"]
    /\ UNCHANGED <<nargc, argstr, options, long_options, has_idx, posix, caller,
                   opterr, optind, optopt, optreset, optarg, place, place_in,
                   nonopt_start, nonopt_end, flagmem, idx, cons>>

NextPermute == CallPermuteArgs

SpecPermute == InitPermute /\ [][NextPermute]_vars

\* C14: permute_args(start, end, opt_end, nargv) with start < end < opt_end
\* leaves the former nargv[end..opt_end-1] at start.. and the former
\* nargv[start..end-1] behind them, each block in its order, and every other
\* entry where it was (the vector started as nargv[i] = i).
C14_Rotation ==
    last.site = "permuted"
    => LET nopts == optind - nonopt_end
       IN  /\ ~trapped
           /\ \A i \in 0..nargc :
                 nargv[i] = IF i = nargc THEN NULLPTR
                            ELSE IF i < nonopt_start \/ i >= optind THEN i
                            ELSE IF i < nonopt_start + nopts
                            THEN nonopt_end + (i - nonopt_start)
                            ELSE nonopt_start + (i - nonopt_start - nopts)

\* C14 witness: blocks of 4 and 2 entries (gcd 2: two cycles of three swaps)
\* rotated inside a longer vector
C14_Witness ==
    /\ last.site = "permuted"
    /\ nonopt_start = 1 /\ nonopt_end = 5 /\ optind = 7 /\ nargc = 7
    /\ nargv[1] = 5 /\ nargv[2] = 6 /\ nargv[3] = 1 /\ nargv[6] = 4

\* ------------------------------------------------------------------ operands by mode
\* the modes as the spec string and the environment select them
InOrderMode == At(options, 0) = DASH /\ ~posix
NoPermutationMode == At(options, 0) = PLUS \/ posix

\* the next call starts a scan at nargv[optind], which is an operand
OperandAhead ==
    /\ place = EMSG /\ optreset = 0
    /\ optind >= 1 /\ optind < nargc
    /\ IsOperand(argstr[nargv[optind]])

\* C15: a call that finds an operand at nargv[optind] returns 1 with optarg
\* the operand and optind one higher in in-order mode, and returns -1 with
\* optind unchanged in no-permutation mode, whatever was scanned before; and
\* no call in either mode changes the vector.
C15_OperandByMode ==
    [][/\ (OperandAhead /\ InOrderMode)
             => /\ last'.ret = 1
                /\ optarg' = argstr[nargv[optind]]
                /\ optind' = optind + 1
       /\ (OperandAhead /\ NoPermutationMode)
             => /\ last'.ret = -1
                /\ optind' = optind
       /\ (InOrderMode \/ NoPermutationMode) => nargv' = nargv]_vars

\* C15 witness: with POSIXLY_CORRECT set and a spec beginning with '-', the
\* call behind -a stops at the bare `-` in front of an option
C15_Witness ==
    /\ posix /\ At(options, 0) = DASH
    /\ last.site = "stop" /\ last.ret = -1 /\ last.prev = Ch.a
    /\ optind = 2 /\ last.optind0 = 2 /\ nargc = 4
    /\ argstr[nargv[2]] = BareDash /\ argstr[nargv[3]] = <<DASH, Ch.a>>
    /\ \A i \in 0..(nargc - 1) : nargv[i] = i

\* ------------------------------------------------------------------ -W as a long option
\* -W with its text in the token and in the next token, the same texts as
\* --text tokens, and an operand
WToks ==
    {Operand, <<DASH, CH_W>>,
     <<DASH, CH_W, Ch.v, Ch.e, Ch.x>>, <<DASH, CH_W, Ch.v, Ch.e, Ch.x, EQUAL, Ch.x>>,
     <<DASH, CH_W, Ch.v, Ch.e>>, <<DASH, CH_W, Ch.n, Ch.a, EQUAL, Ch.x>>,
     <<DASH, CH_W, Ch.v>>,
     <<Ch.v, Ch.e, Ch.x>>, <<Ch.v, Ch.e>>, <<Ch.n, Ch.a, EQUAL, Ch.x>>,
     <<DASH, DASH, Ch.v, Ch.e, Ch.x>>, <<DASH, DASH, Ch.n, Ch.a, EQUAL, Ch.x>>,
     <<DASH, DASH, Ch.v>>}

InitW ==
    InitWith(VectorsUpTo(WToks, MaxOptArgs + 1), {SpecBody, <<COLON>> \o SpecBody},
             {TableA, TableB}, {FALSE}, {"getopt", "getopt_long"}, BOOLEAN, {1})

SpecW == InitW /\ [][Next]_vars

\* what a long option of text T (name or name=value), named by the tokens in
\* front of slot n, gives by the rules of C4 and C6 to C10
LongOutcome(T, n) ==
    LET e     == ExpectedEntry(UpToEqual(T))
        value == AfterEqual(T)
        error(code, opt) ==
            [ret |-> code, optarg |-> NULL, optopt |-> opt, flagmem |-> flagmem,
             idx |-> idx, optind |-> n]
    IN  IF e = -1 THEN error(QMARK, 0)
        ELSE IF LO(e).has_arg = no_argument /\ value # NULL
        THEN error(ArgErrorCode, EntryOptopt(e))
        ELSE IF LO(e).has_arg = required_argument /\ value = NULL /\ n >= nargc
        THEN error(ArgErrorCode, EntryOptopt(e))
        ELSE [ret     |-> IF LO(e).flag # 0 THEN 0 ELSE LO(e).val,
              optarg  |-> IF LO(e).has_arg = no_argument THEN NULL
                          ELSE IF value # NULL THEN value
                          ELSE IF LO(e).has_arg = required_argument
                          THEN argstr[nargv[n]]
                          ELSE NULL,
              optopt  |-> optopt,
              flagmem |-> IF LO(e).flag # 0
                          THEN [flagmem EXCEPT ![LO(e).flag] = LO(e).val]
                          ELSE flagmem,
              idx     |-> IF has_idx THEN e ELSE idx,
              optind  |-> IF LO(e).has_arg = required_argument /\ value = NULL
                          THEN n + 1 ELSE n]

\* what the call leaves, to compare with LongOutcome
Outcome ==
    [ret |-> last'.ret, optarg |-> optarg', optopt |-> optopt',
     flagmem |-> flagmem', idx |-> idx', optind |-> optind']

\* the next call of getopt_long starts a scan at the token nargv[optind]
TokenAhead ==
    /\ caller = "getopt_long" /\ place = EMSG /\ optreset = 0
    /\ optind >= 1 /\ optind < nargc
Ahead == argstr[nargv[optind]]
IsWToken(str) == Len(str) >= 2 /\ str[1] = DASH /\ str[2] = CH_W

\* C16: with W; in the spec, a call of getopt_long on -Wtext, or on -W
\* followed by the token text, leaves the return value, optarg, optopt, the
\* write-back destinations, *idx and optind that the rules for the long option
\* --text give, optind counted from behind every token that names the option,
\* and so does the call on --text itself; -W as the last token gives the
\* missing-argument code with optopt = 'W'.
C16_WLongOption ==
    [][/\ (/\ TokenAhead /\ Declared(CH_W) = "W;"
           /\ IsWToken(Ahead) /\ Len(Ahead) > 2
           /\ UpToEqual(Plus(Ahead, 2)) # <<>>)
             => Outcome = LongOutcome(Plus(Ahead, 2), optind + 1)
       /\ (/\ TokenAhead /\ Declared(CH_W) = "W;"
           /\ Ahead = <<DASH, CH_W>> /\ optind + 1 < nargc
           /\ UpToEqual(NextTok(optind)) # <<>>)
             => Outcome = LongOutcome(NextTok(optind), optind + 2)
       /\ (/\ TokenAhead /\ IsLongToken(Ahead)
           /\ UpToEqual(Plus(Ahead, 2)) # <<>>)
             => Outcome = LongOutcome(Plus(Ahead, 2), optind + 1)
       /\ (/\ TokenAhead /\ Declared(CH_W) = "W;"
           /\ Ahead = <<DASH, CH_W>> /\ optind + 1 = nargc)
             => /\ last'.ret = ArgErrorCode
                /\ optopt' = CH_W
                /\ optarg' = NULL]_vars

\* C16 witness: -W vex x resolved like --vex x: the entry vex with x as its
\* argument and optind behind the three tokens
C16_Witness ==
    /\ last.func = "getopt_long" /\ last.met # NULLPTR
    /\ argstr[last.met] = <<DASH, CH_W>>
    /\ last.current_argv = <<Ch.v, Ch.e, Ch.x>>
    /\ last.site = "long" /\ LO(last.match).name = <<Ch.v, Ch.e, Ch.x>>
    /\ optarg = Operand /\ optind = 4 /\ last.optind0 = 1
    /\ LO(last.match).flag # 0 /\ last.ret = 0
    /\ flagmem[LO(last.match).flag] = LO(last.match).val

\* ------------------------------------------------------------------ termination
\* the tokens of the errors, a -W with an unknown text and the terminator
LoopToks == ErrToks \cup {DashDash, <<DASH, CH_W, Ch.z>>}

InitLoop ==
    InitWith(VectorsUpTo(LoopToks, MaxOptArgs), ErrSpecs, {TableA, TableB},
             {FALSE}, {"getopt", "getopt_long"}, {TRUE}, {1})

SpecLoop == InitLoop /\ [][Next]_vars

\* the call consumed a token (optind is higher) or a character of the token
\* at optind (place is further in it)
Consumed ==
    \/ optind' > optind
    \/ /\ optind' = optind
       /\ place' # EMSG
       /\ place = EMSG \/ Len(place') < Len(place)

\* what is left to scan: the tokens from optind on, one more than the longest
\* token for each, and of the token at optind what place has not passed
LongestToken ==
    CHOOSE n \in 0..64 : /\ \A i \in 0..(nargc - 1) : Len(argstr[i]) <= n
                         /\ \E i \in 0..(nargc - 1) : Len(argstr[i]) = n
LeftToScan ==
    (nargc - optind) * (LongestToken + 1)
        + (IF place = EMSG THEN LongestToken ELSE Len(place))

\* C17: every call of getopt_long that does not return -1 consumed a
\* character of the token at optind or a token, and left less to scan than it
\* found; what is left to scan is never negative and optind is at most nargc
\* after every call: so a caller that keeps calling, also after error returns,
\* gets -1 after no more calls than there was to scan.
C17_Termination ==
    /\ [][(caller = "getopt_long" /\ last'.ret # -1)
             => Consumed /\ LeftToScan' < LeftToScan]_vars
    /\ [](caller = "getopt_long"
             => LeftToScan >= 0 /\ optind <= nargc /\ ~trapped)

\* C17 witness: getopt_long returned -1 after two error returns, an unknown
\* option and an option without its argument, with optind = nargc
C17_Witness ==
    /\ caller = "getopt_long" /\ last.ret = -1 /\ last.prev = QMARK
    /\ nargc = 3 /\ optind = 3
    /\ argstr[1] = <<DASH, Ch.z>> /\ argstr[2] = <<DASH, DASH, Ch.v, Ch.e, Ch.x>>
    /\ At(options, 0) = SpecBody[1]

\* ------------------------------------------------------------------ optreset
\* operands, options alone and in a cluster, options that take the next token,
\* an unknown option and the terminator
ResetToks == {Operand, DashDash, <<DASH, Ch.a>>, <<DASH, Ch.a, Ch.e>>, <<DASH, Ch.b>>,
              <<DASH, Ch.z, Ch.a>>, <<DASH, DASH, Ch.v, Ch.e, Ch.x>>}

InitReset ==
    InitWith(VectorsUpTo(ResetToks, MaxOptArgs + 1), ModeSpecs, {TableA},
             {FALSE}, {"getopt", "getopt_long"}, {TRUE}, {1})

\* the caller sets optreset = 1 and optind = 1 or 0 to parse the vector again
ResetByCaller ==
    /\ ~trapped
    /\ last.func \in {"getopt", "getopt_long"}
    /\ optreset' = 1
    /\ optind' \in {0, 1}
    /\ last' = [last EXCEPT !.func = "reset"]
    /\ UNCHANGED <<nargc, argstr, options, long_options, has_idx, posix, caller, nargv,
                   opterr, optopt, optarg, place, place_in,
                   nonopt_start, nonopt_end, flagmem, idx, cons, trapped>>

NextReset == CallGetoptLong \/ CallGetopt \/ ResetByCaller

SpecReset == InitReset /\ [][NextReset]_vars

\* the results of the caller's loop from the scanner state s up to the first
\* -1: return value and optarg of every call, optind and the vector at the end
RECURSIVE ParseFrom(_, _)
ParseFrom(s, fuel) ==
    LET r == IF caller = "getopt_long" THEN getopt_long(s) ELSE getopt(s)
    IN  IF r.ret = -1 \/ fuel = 0 \/ r.trapped
        THEN << [ret |-> r.ret, optarg |-> r.optarg, optind |-> r.optind,
                 nargv |-> r.nargv, trapped |-> r.trapped] >>
        ELSE << [ret |-> r.ret, optarg |-> r.optarg] >> \o ParseFrom(r, fuel - 1)

\* the scanner state of a first use on the vector as it is now
FirstUse ==
    [Cur EXCEPT !.optind = 1, !.optreset = 0, !.optarg = NULL, !.place = EMSG,
                !.place_in = NULLPTR, !.nonopt_start = -1, !.nonopt_end = -1]

\* C18: once the caller has set optreset (optind 1 or 0), in whatever state
\* the last call left the scanner, the calls up to the first -1 return the
\* values and optarg, and leave the optind and vector, of a first use on the
\* vector as it is; and every call leaves optreset 0.
C18_Reset ==
    /\ last.func = "reset"
          => ParseFrom(Cur, LeftToScan + nargc * (LongestToken + 1))
                = ParseFrom(FirstUse, LeftToScan + nargc * (LongestToken + 1))
    /\ last.func \in {"getopt", "getopt_long"} => optreset = 0

\* C18 witness: the reset comes with optind 0 in the middle of the cluster -ae
\* behind a deferred operand, and the parse that follows returns options and
\* moves the operand
C18_Witness ==
    /\ last.func = "reset" /\ optreset = 1 /\ optind = 0
    /\ place = <<Ch.e>> /\ nonopt_start = 1 /\ nonopt_end = 2
    /\ argstr[nargv[2]] = <<DASH, Ch.a, Ch.e>>
    /\ Len(ParseFrom(Cur, 8)) = 4
    /\ ParseFrom(Cur, 8)[1].ret = Ch.a
    /\ ParseFrom(Cur, 8)[4].optind = 3

\* ------------------------------------------------------------------ the calls of permute_args
\* C19: every call permute_args(start, end, opt_end, nargv) the scanner makes
\* has 1 <= start < end < opt_end <= nargc: both blocks are non-empty, gcd
\* divides by a non-zero length and only the slots 1..nargc-1 are swapped.
C19_PermuteCalls ==
    /\ ~trapped
    /\ \A k \in 1..Len(last.pcalls) :
          LET c == last.pcalls[k]
          IN  /\ 1 <= c[1] /\ c[1] < c[2] /\ c[2] < c[3] /\ c[3] <= nargc
              /\ permute_defined(c[1], c[2], c[3])

\* C19 witness: one call of the scanner made two calls of permute_args, the
\* second up to the end of the vector
C19_Witness ==
    /\ Len(last.pcalls) = 2
    /\ last.pcalls[2][3] = nargc
    /\ last.pcalls[1][1] = 1
    /\ last.pcalls[2][2] - last.pcalls[2][1] = 2

\* ------------------------------------------------------------------ the code and the message of an argument error
\* C20: with opterr non-zero, a missing or forbidden argument is returned as
\* ':' exactly when no message is written for it and as '?' exactly when one
\* is written, for every spec string, those beginning with "+:" or "-:" too.
C20_CodeAndMessage ==
    (opterr # 0 /\ last.site \in ArgErrors)
    => /\ last.ret = COLON <=> last.diag = "none"
       /\ last.ret = QMARK <=> last.diag # "none"
====
